---- MODULE Spec2Model ----
(***************************************************************************)
(* Model of src/train.py: the epoch loop of main(), the training loop of   *)
(* train() and the validation loop of validate(), with the run-wide        *)
(* globals n_iter and best_photo_loss, the two CSV logs, the checkpoint    *)
(* calls, the pose buffer and the image/histogram emission gates.          *)
(*                                                                         *)
(* The networks, the loss functions and the data loaders are outside the   *)
(* file. What the loops observe of them is an input of the run: the        *)
(* lengths of the two loaders, and the validation photometric loss that    *)
(* each epoch's validate() returns (val_photo).                            *)
(***************************************************************************)
EXTENDS Integers, Sequences, FiniteSets, TLC

\* ---- bounds of the model ------------------------------------------------
MaxEpochs == 3
MaxEpochSize == 3
MaxTrainLen == 3
MaxValLen == 2
MaxBatchSize == 2
MaxSeqLen == 3
MaxLoss == 3
MaxBestEpochs == 4
MaxPoseValLen == 5
MaxWriters == 3
MaxStrides == 2
MaxSlack == 1
MaxParams == 3

\* ---- constants of the program --------------------------------------------
DefaultBatchSize == 4
DefaultSeqLen == 3
NumWriters == 3
TrainImageStride == 200
ValImageStride == 100
UnsetBest == -1

PoseComponents == {"tx", "ty", "tz", "rx", "ry", "rz"}

VARIABLES
    pc,               \* position of main(): which call or statement is next
    epochs,           \* args.epochs
    cli_epoch_size,   \* args.epoch_size as parsed from the command line
    epoch_size,       \* args.epoch_size (rewritten once by main)
    batch_size,       \* args.batch_size
    sequence_length,  \* args.sequence_length
    log_output,       \* args.log_output
    output_writers,   \* len(output_writers)
    train_len,        \* len(train_loader)
    val_len,          \* len(val_loader)
    val_photo,        \* losses1.avg returned by validate(), per epoch
    epoch,            \* loop variable of main
    i,                \* loop variable of train / validate
    n_iter,           \* global n_iter
    best_photo_loss,  \* global best_photo_loss
    opt_steps,        \* optimizer.step() calls so far (version of the parameters)
    train_steps,      \* loop bodies executed by the current call of train
    log_full,         \* data rows of the full per-step log
    log_summary,      \* data rows of the summary log (the epoch that wrote each)
    checkpoints,      \* save_checkpoint calls, in order
    valid_photo_loss, \* main's valid_photo_loss
    poses,            \* validate's pose buffer: writes received by each row
    pose_writers,     \* batches of this validation that assigned into poses
    val_tag,          \* index of the last validation batch processed
    val_emit,         \* writers that received images at that batch
    val_inputs,       \* writers that received the raw inputs at that batch
    writers_used,     \* writer indices subscripted so far
    histograms,       \* (writer, component) histograms of this validation
    train_tag,        \* n_iter used as the tag of the last training step
    train_emit,       \* whether the last training step emitted images
    dataset_format,   \* args.dataset_format
    disp_params,      \* set(disp_net.parameters())
    pose_params,      \* set(pose_exp_net.parameters())
    parameters,       \* the optimizer's parameters: how often each is listed
    updates,          \* updates each parameter has received from optimizer.step()
    raised            \* the exception that ended the run, "none" while it runs

vars == <<pc, epochs, cli_epoch_size, epoch_size, batch_size, sequence_length,
          log_output, output_writers, train_len, val_len, val_photo, epoch, i,
          n_iter, best_photo_loss, opt_steps, train_steps, log_full,
          log_summary, checkpoints, valid_photo_loss, poses, pose_writers,
          val_tag, val_emit, val_inputs, writers_used, histograms, train_tag,
          train_emit, dataset_format, disp_params, pose_params, parameters,
          updates, raised>>

config == <<epochs, cli_epoch_size, batch_size, sequence_length, log_output,
            output_writers, train_len, val_len, val_photo, dataset_format,
            disp_params, pose_params>>

Min(a, b) == IF a < b THEN a ELSE b

\* ---- pure parts of the code ------------------------------------------------

\* main: SequenceFolder is imported for 'stacked' and for 'sequential' only
FormatBound_Defaulted(f) == TRUE
FormatBound(f) == f \in {"stacked", "sequential"}

\* main: parameters = set(); parameters |= set(net_.parameters()) for both
\* nets; torch.optim.Adam(parameters, ...) then lists each element once.
CombinedParameters_Chained(d, q) ==
    [x \in d \cup q |-> (IF x \in d THEN 1 ELSE 0) + (IF x \in q THEN 1 ELSE 0)]
CombinedParameters(d, q) == [x \in d \cup q |-> 1]

\* optimizer.step(): every listed parameter is updated, once per listing
StepParameters(u, ps) ==
    [x \in DOMAIN u |-> u[x] + (IF x \in DOMAIN ps THEN ps[x] ELSE 0)]

\* No try/except in main, train or validate: an exception leaves main.
OnException_Swallowed(at) ==
    CASE at = "train" -> "validate_enter"
      [] at = "validate" -> "checkpoint"
      [] at = "checkpoint" -> "summary"
      [] OTHER -> "error"
OnException(at) == "error"

\* main: if args.epoch_size == 0: args.epoch_size = len(train_loader)
EpochSizeOrLen(es, tl) == IF es = 0 THEN tl ELSE es

\* train: if i >= epoch_size - 1: break
BreakAfter_OffByOne(idx, es) == idx >= es
BreakAfter(idx, es) == idx >= es - 1

\* train: if n_iter%200 ==0 and args.log_output
LogTrainImages_NoStride(n, lo) == lo
LogTrainImages(n, lo) == n % TrainImageStride = 0 /\ lo

\* validate: log_outputs = len(output_writers) > 0
LogOutputs(nw) == nw > 0

\* validate: if log_outputs and i%100 == 0 and i/100 < len(output_writers)
LogValImages_Unbounded(idx, nw) == LogOutputs(nw) /\ idx % ValImageStride = 0
LogValImages(idx, nw) ==
    /\ LogOutputs(nw)
    /\ idx % ValImageStride = 0
    /\ idx \div ValImageStride < nw

\* validate: index = int(i//100)
WriterIndex(idx) == idx \div ValImageStride

\* validate: poses = np.zeros(((len(val_loader)-1) * batch_size * (sequence_length-1), 6))
PosesLen_AllBatches(B, S, L) == B * S * (L - 1)
PosesLen(B, S, L) == (B - 1) * S * (L - 1)

Zeros(n) == [k \in 0..(n - 1) |-> 0]

\* validate: if log_outputs and i<len(val_loader)-1
WritesPoses(idx, B, nw) == LogOutputs(nw) /\ idx < B - 1

\* validate: step = batch_size*(sequence_length-1); poses[i*step:(i+1)*step] = ...
PoseStep_WholeSequence(S, L) == S * L
PoseStep(S, L) == S * (L - 1)
PoseSlice(idx, S, L) == (idx * PoseStep(S, L))..((idx + 1) * PoseStep(S, L) - 1)
AssignPoses(p, idx, S, L) ==
    [k \in DOMAIN p |-> IF k \in PoseSlice(idx, S, L) THEN p[k] + 1 ELSE p[k]]

\* main: 'epoch': epoch + 1 in both dictionaries given to save_checkpoint
CheckpointTag_Index(e) == e
CheckpointTag(e) == e + 1

\* main: if best_photo_loss < 0: best_photo_loss = valid_photo_loss
Baseline_Always(best, v) == v
Baseline(best, v) == IF best < 0 THEN v ELSE best

\* main: is_best = valid_photo_loss < best_photo_loss
IsBest_OrEqual(v, best) == v <= best
IsBest(v, best) == v < best

\* ---- initial states ---------------------------------------------------------

\* The module-level globals and the locals of main before its first statement
\* that the model follows.
Boot ==
    /\ pc = "main"
    /\ epoch = 0
    /\ i = 0
    /\ n_iter = 0
    /\ best_photo_loss = UnsetBest
    /\ opt_steps = 0
    /\ train_steps = 0
    /\ log_full = 0
    /\ log_summary = <<>>
    /\ checkpoints = <<>>
    /\ valid_photo_loss = 0
    /\ poses = Zeros(0)
    /\ pose_writers = {}
    /\ val_tag = -1
    /\ val_emit = {}
    /\ val_inputs = {}
    /\ writers_used = {}
    /\ histograms = {}
    /\ train_tag = -1
    /\ train_emit = FALSE
    /\ epoch_size = cli_epoch_size
    /\ parameters = [x \in {} |-> 0]
    /\ updates = [x \in disp_params \cup pose_params |-> 0]
    /\ raised = "none"

\* The default format, and two networks that share no parameter.
PlainInputs ==
    /\ dataset_format = "sequential"
    /\ disp_params = {1}
    /\ pose_params = {2}

\* main builds three writers when --log-output is given, none otherwise
MainWriters(lo) == IF lo THEN NumWriters ELSE 0

\* The schedule of a run: every epoch count, epoch size and loader length.
Init ==
    /\ epochs \in 1..MaxEpochs
    /\ cli_epoch_size \in 0..MaxEpochSize
    /\ train_len \in 1..MaxTrainLen
    /\ val_len \in 0..MaxValLen
    /\ batch_size = DefaultBatchSize
    /\ sequence_length = DefaultSeqLen
    /\ log_output \in BOOLEAN
    /\ output_writers = MainWriters(log_output)
    /\ val_photo \in {[e \in 1..epochs |-> v] : v \in 0..1}
    /\ PlainInputs
    /\ Boot

\* The checkpoint policy: every sequence of validation photometric losses.
InitBest ==
    /\ epochs \in 1..MaxBestEpochs
    /\ cli_epoch_size \in 0..2
    /\ train_len = 1
    /\ val_len \in 0..1
    /\ batch_size = DefaultBatchSize
    /\ sequence_length = DefaultSeqLen
    /\ log_output = FALSE
    /\ output_writers = MainWriters(log_output)
    /\ val_photo \in [1..epochs -> 0..MaxLoss]
    /\ PlainInputs
    /\ Boot

\* The pose buffer: every loader length, batch size and sequence length,
\* validate() being given any number of writers.
InitPose ==
    /\ epochs \in 1..2
    /\ cli_epoch_size \in 0..2
    /\ train_len = 1
    /\ val_len \in 0..MaxPoseValLen
    /\ batch_size \in 1..MaxBatchSize
    /\ sequence_length \in DefaultSeqLen..MaxSeqLen
    /\ log_output \in BOOLEAN
    /\ output_writers \in 0..MaxWriters
    /\ val_photo = [e \in 1..epochs |-> 0]
    /\ PlainInputs
    /\ Boot

\* The emission gates: loaders long enough to cross the image strides.
StrideLens(stride) ==
    (0..MaxSlack) \cup
    {k * stride + d : k \in 1..MaxStrides, d \in 0..(MaxSlack + 1)}

\* Either the training loader is long and main's own writers are used, or the
\* validation loader is long and validate() is given any number of writers.
InitVis ==
    /\ batch_size = 1
    /\ sequence_length = DefaultSeqLen
    /\ \/ /\ epochs \in 1..2
          /\ cli_epoch_size \in {0, 1, MaxStrides * TrainImageStride}
          /\ train_len \in StrideLens(TrainImageStride) \ {0}
          /\ val_len \in 0..1
          /\ log_output \in BOOLEAN
          /\ output_writers = MainWriters(log_output)
       \/ /\ epochs = 2
          /\ cli_epoch_size \in {0, 2}
          /\ train_len = 1
          /\ val_len \in StrideLens(ValImageStride) \cup
                         {MaxWriters * ValImageStride + d : d \in 0..(MaxSlack + 1)}
          /\ output_writers \in 0..MaxWriters
          /\ log_output = LogOutputs(output_writers)
    /\ val_photo = [e \in 1..epochs |-> 0]
    /\ PlainInputs
    /\ Boot

\* ---- main ---------------------------------------------------------------------

\* main, from the epoch-size default to the start of the epoch loop: both CSV
\* files are created with their header row and no data row.
MainSetup ==
    /\ pc = "main"
    /\ FormatBound(dataset_format)
    /\ epoch_size' = EpochSizeOrLen(epoch_size, train_len)
    /\ parameters' = CombinedParameters(disp_params, pose_params)
    /\ log_summary' = <<>>
    /\ log_full' = 0
    /\ pc' = "epoch_loop"
    /\ UNCHANGED <<raised, updates>>
    /\ UNCHANGED <<config, epoch, i, n_iter, best_photo_loss, opt_steps,
                   train_steps, checkpoints, valid_photo_loss, poses,
                   pose_writers, val_tag, val_emit, val_inputs, writers_used,
                   histograms, train_tag, train_emit>>

\* for epoch in range(args.epochs): ... train(...) is entered
EpochBegin ==
    /\ pc = "epoch_loop"
    /\ epoch < epochs
    /\ i' = 0
    /\ train_steps' = 0
    /\ pc' = "train"
    /\ UNCHANGED <<raised, parameters, updates>>
    /\ UNCHANGED <<config, epoch_size, epoch, n_iter, best_photo_loss,
                   opt_steps, log_full, log_summary, checkpoints,
                   valid_photo_loss, poses, pose_writers, val_tag, val_emit,
                   val_inputs, writers_used, histograms, train_tag, train_emit>>

\* the epoch loop is exhausted: logger.epoch_bar.finish()
MainFinish ==
    /\ pc = "epoch_loop"
    /\ epoch >= epochs
    /\ pc' = "done"
    /\ UNCHANGED <<raised, parameters, updates>>
    /\ UNCHANGED <<config, epoch_size, epoch, i, n_iter, best_photo_loss,
                   opt_steps, train_steps, log_full, log_summary, checkpoints,
                   valid_photo_loss, poses, pose_writers, val_tag, val_emit,
                   val_inputs, writers_used, histograms, train_tag, train_emit>>

\* ---- train ----------------------------------------------------------------------

\* One pass of the loop body of train for batch i: the scalars and (gated) the
\* images are tagged with n_iter, the optimizer steps, one row is appended to
\* the full log, and then either the epoch-size break leaves the loop or
\* n_iter is incremented and the loop goes on.
TrainStep_RowAfterBreak ==
    /\ pc = "train"
    /\ i < train_len
    /\ train_tag' = n_iter
    /\ train_emit' = LogTrainImages(n_iter, log_output)
    /\ opt_steps' = opt_steps + 1
    /\ updates' = StepParameters(updates, parameters)
    /\ train_steps' = train_steps + 1
    /\ IF BreakAfter(i, epoch_size)
         THEN /\ pc' = "validate_enter"
              /\ UNCHANGED <<n_iter, i, log_full>>
         ELSE /\ log_full' = log_full + 1
              /\ n_iter' = n_iter + 1
              /\ i' = i + 1
              /\ pc' = pc
    /\ UNCHANGED <<raised, parameters>>
    /\ UNCHANGED <<config, epoch_size, epoch, best_photo_loss, log_summary,
                   checkpoints, valid_photo_loss, poses, pose_writers, val_tag,
                   val_emit, val_inputs, writers_used, histograms>>

TrainStep_CountsBreak ==
    /\ pc = "train"
    /\ i < train_len
    /\ train_tag' = n_iter
    /\ train_emit' = LogTrainImages(n_iter, log_output)
    /\ opt_steps' = opt_steps + 1
    /\ updates' = StepParameters(updates, parameters)
    /\ train_steps' = train_steps + 1
    /\ log_full' = log_full + 1
    /\ n_iter' = n_iter + 1
    /\ IF BreakAfter(i, epoch_size)
         THEN /\ pc' = "validate_enter"
              /\ UNCHANGED i
         ELSE /\ i' = i + 1
              /\ pc' = pc
    /\ UNCHANGED <<raised, parameters>>
    /\ UNCHANGED <<config, epoch_size, epoch, best_photo_loss, log_summary,
                   checkpoints, valid_photo_loss, poses, pose_writers, val_tag,
                   val_emit, val_inputs, writers_used, histograms>>

TrainStep ==
    /\ pc = "train"
    /\ i < train_len
    /\ train_tag' = n_iter
    /\ train_emit' = LogTrainImages(n_iter, log_output)
    /\ opt_steps' = opt_steps + 1
    /\ updates' = StepParameters(updates, parameters)
    /\ train_steps' = train_steps + 1
    /\ log_full' = log_full + 1
    /\ IF BreakAfter(i, epoch_size)
         THEN /\ pc' = "validate_enter"
              /\ UNCHANGED <<n_iter, i>>
         ELSE /\ n_iter' = n_iter + 1
              /\ i' = i + 1
              /\ pc' = pc
    /\ UNCHANGED <<raised, parameters>>
    /\ UNCHANGED <<config, epoch_size, epoch, best_photo_loss, log_summary,
                   checkpoints, valid_photo_loss, poses, pose_writers, val_tag,
                   val_emit, val_inputs, writers_used, histograms>>

\* The training loader is exhausted before the break fired: return losses.avg
TrainExhausted_Stuck ==
    /\ pc = "train"
    /\ i > train_len
    /\ pc' = "validate_enter"
    /\ UNCHANGED <<raised, parameters, updates>>
    /\ UNCHANGED <<config, epoch_size, epoch, i, n_iter, best_photo_loss,
                   opt_steps, train_steps, log_full, log_summary, checkpoints,
                   valid_photo_loss, poses, pose_writers, val_tag, val_emit,
                   val_inputs, writers_used, histograms, train_tag, train_emit>>

TrainExhausted ==
    /\ pc = "train"
    /\ i >= train_len
    /\ pc' = "validate_enter"
    /\ UNCHANGED <<raised, parameters, updates>>
    /\ UNCHANGED <<config, epoch_size, epoch, i, n_iter, best_photo_loss,
                   opt_steps, train_steps, log_full, log_summary, checkpoints,
                   valid_photo_loss, poses, pose_writers, val_tag, val_emit,
                   val_inputs, writers_used, histograms, train_tag, train_emit>>

\* ---- validate -------------------------------------------------------------------

\* validate up to its loop: the meters and the pose buffer are created.
ValidateEnter ==
    /\ pc = "validate_enter"
    /\ PosesLen(val_len, batch_size, sequence_length) >= 0
    /\ poses' = Zeros(PosesLen(val_len, batch_size, sequence_length))
    /\ pose_writers' = {}
    /\ histograms' = {}
    /\ val_tag' = -1
    /\ val_emit' = {}
    /\ val_inputs' = {}
    /\ i' = 0
    /\ pc' = "validate"
    /\ UNCHANGED <<raised, parameters, updates>>
    /\ UNCHANGED <<config, epoch_size, epoch, n_iter, best_photo_loss,
                   opt_steps, train_steps, log_full, log_summary, checkpoints,
                   valid_photo_loss, writers_used, train_tag, train_emit>>

\* np.zeros raises ValueError on a negative dimension (an empty validation
\* loader); nothing catches it, the run ends.
ValidateEnterFails ==
    /\ pc = "validate_enter"
    /\ PosesLen(val_len, batch_size, sequence_length) < 0
    /\ raised' = "zeros"
    /\ pc' = OnException(pc)
    /\ UNCHANGED <<parameters, updates>>
    /\ UNCHANGED <<config, epoch_size, epoch, i, n_iter, best_photo_loss,
                   opt_steps, train_steps, log_full, log_summary, checkpoints,
                   valid_photo_loss, poses, pose_writers, val_tag, val_emit,
                   val_inputs, writers_used, histograms, train_tag, train_emit>>

\* One pass of the loop body of validate for batch i.
ValidateBatch_Steps ==
    /\ pc = "validate"
    /\ i < val_len
    /\ val_tag' = i
    /\ val_emit' = IF LogValImages(i, output_writers) THEN {WriterIndex(i)} ELSE {}
    /\ val_inputs' = IF LogValImages(i, output_writers) /\ epoch = 0
                       THEN {WriterIndex(i)} ELSE {}
    /\ writers_used' = writers_used \cup val_emit'
    /\ IF WritesPoses(i, val_len, output_writers)
         THEN /\ poses' = AssignPoses(poses, i, batch_size, sequence_length)
              /\ pose_writers' = pose_writers \cup {i}
         ELSE UNCHANGED <<poses, pose_writers>>
    /\ i' = i + 1
    /\ opt_steps' = opt_steps + 1
    /\ n_iter' = n_iter + 1
    /\ UNCHANGED <<raised, parameters, updates>>
    /\ UNCHANGED <<pc, config, epoch_size, epoch, best_photo_loss,
                   train_steps, log_full, log_summary, checkpoints,
                   valid_photo_loss, histograms, train_tag, train_emit>>

ValidateBatch ==
    /\ pc = "validate"
    /\ i < val_len
    /\ val_tag' = i
    /\ val_emit' = IF LogValImages(i, output_writers) THEN {WriterIndex(i)} ELSE {}
    /\ val_inputs' = IF LogValImages(i, output_writers) /\ epoch = 0
                       THEN {WriterIndex(i)} ELSE {}
    /\ writers_used' = writers_used \cup val_emit'
    /\ IF WritesPoses(i, val_len, output_writers)
         THEN /\ poses' = AssignPoses(poses, i, batch_size, sequence_length)
              /\ pose_writers' = pose_writers \cup {i}
         ELSE UNCHANGED <<poses, pose_writers>>
    /\ i' = i + 1
    /\ UNCHANGED <<raised, parameters, updates>>
    /\ UNCHANGED <<pc, config, epoch_size, epoch, n_iter, best_photo_loss,
                   opt_steps, train_steps, log_full, log_summary, checkpoints,
                   valid_photo_loss, histograms, train_tag, train_emit>>

\* The validation loader is exhausted: the six pose histograms go to writer 0
\* when there are writers, and the three averages are returned to main.
ValidateReturn_EveryWriter ==
    /\ pc = "validate"
    /\ i >= val_len
    /\ histograms' = {<<w, c>> : w \in 0..(output_writers - 1), c \in PoseComponents}
    /\ writers_used' = writers_used \cup (0..(output_writers - 1))
    /\ valid_photo_loss' = val_photo[epoch + 1]
    /\ pc' = "checkpoint"
    /\ UNCHANGED <<raised, parameters, updates>>
    /\ UNCHANGED <<config, epoch_size, epoch, i, n_iter, best_photo_loss,
                   opt_steps, train_steps, log_full, log_summary, checkpoints,
                   poses, pose_writers, val_tag, val_emit, val_inputs,
                   train_tag, train_emit>>

ValidateReturn ==
    /\ pc = "validate"
    /\ i >= val_len
    /\ histograms' = IF LogOutputs(output_writers)
                       THEN {<<0, c>> : c \in PoseComponents} ELSE {}
    /\ writers_used' = IF LogOutputs(output_writers)
                         THEN writers_used \cup {0} ELSE writers_used
    /\ valid_photo_loss' = val_photo[epoch + 1]
    /\ pc' = "checkpoint"
    /\ UNCHANGED <<raised, parameters, updates>>
    /\ UNCHANGED <<config, epoch_size, epoch, i, n_iter, best_photo_loss,
                   opt_steps, train_steps, log_full, log_summary, checkpoints,
                   poses, pose_writers, val_tag, val_emit, val_inputs,
                   train_tag, train_emit>>

\* ---- main, after validate ---------------------------------------------------------

\* The baseline rule, is_best, the new best_photo_loss and save_checkpoint.
CheckpointSave_OnlyBest ==
    /\ pc = "checkpoint"
    /\ LET base == Baseline(best_photo_loss, valid_photo_loss)
           is_best == IsBest(valid_photo_loss, base)
       IN /\ best_photo_loss' = Min(valid_photo_loss, base)
          /\ checkpoints' = IF is_best
                               THEN Append(checkpoints,
                                           [epoch |-> CheckpointTag(epoch),
                                     pose_epoch |-> CheckpointTag(epoch),
                                     is_best |-> is_best])
                               ELSE checkpoints
    /\ pc' = "summary"
    /\ UNCHANGED <<raised, parameters, updates>>
    /\ UNCHANGED <<config, epoch_size, epoch, i, n_iter, opt_steps,
                   train_steps, log_full, log_summary, valid_photo_loss, poses,
                   pose_writers, val_tag, val_emit, val_inputs, writers_used,
                   histograms, train_tag, train_emit>>

CheckpointSave ==
    /\ pc = "checkpoint"
    /\ LET base == Baseline(best_photo_loss, valid_photo_loss)
           is_best == IsBest(valid_photo_loss, base)
       IN /\ best_photo_loss' = Min(valid_photo_loss, base)
          /\ checkpoints' = Append(checkpoints,
                                    [epoch |-> CheckpointTag(epoch),
                                     pose_epoch |-> CheckpointTag(epoch),
                                     is_best |-> is_best])
    /\ pc' = "summary"
    /\ UNCHANGED <<raised, parameters, updates>>
    /\ UNCHANGED <<config, epoch_size, epoch, i, n_iter, opt_steps,
                   train_steps, log_full, log_summary, valid_photo_loss, poses,
                   pose_writers, val_tag, val_emit, val_inputs, writers_used,
                   histograms, train_tag, train_emit>>

\* One row is appended to the summary log; the epoch loop takes its next value.
SummaryRow_SkipsEpoch ==
    /\ pc = "summary"
    /\ log_summary' = Append(log_summary, epoch)
    /\ epoch' = epoch + 2
    /\ pc' = "epoch_loop"
    /\ UNCHANGED <<raised, parameters, updates>>
    /\ UNCHANGED <<config, epoch_size, i, n_iter, best_photo_loss, opt_steps,
                   train_steps, log_full, checkpoints, valid_photo_loss, poses,
                   pose_writers, val_tag, val_emit, val_inputs, writers_used,
                   histograms, train_tag, train_emit>>

SummaryRow ==
    /\ pc = "summary"
    /\ log_summary' = Append(log_summary, epoch)
    /\ epoch' = epoch + 1
    /\ pc' = "epoch_loop"
    /\ UNCHANGED <<raised, parameters, updates>>
    /\ UNCHANGED <<config, epoch_size, i, n_iter, best_photo_loss, opt_steps,
                   train_steps, log_full, checkpoints, valid_photo_loss, poses,
                   pose_writers, val_tag, val_emit, val_inputs, writers_used,
                   histograms, train_tag, train_emit>>

\* ---- failures -----------------------------------------------------------------------

\* An invalid --dataset-format binds no SequenceFolder: building train_set
\* raises, before the loaders, the optimizer and the log files exist.
MainDatasetFails ==
    /\ pc = "main"
    /\ ~FormatBound(dataset_format)
    /\ raised' = "name"
    /\ pc' = OnException(pc)
    /\ UNCHANGED <<parameters, updates>>
    /\ UNCHANGED <<config, epoch_size, epoch, i, n_iter, best_photo_loss,
                   opt_steps, train_steps, log_full, log_summary, checkpoints,
                   valid_photo_loss, poses, pose_writers, val_tag, val_emit,
                   val_inputs, writers_used, histograms, train_tag, train_emit>>

\* The loop body of train raises: when the loader produces batch i or a loss
\* is computed, before anything of the step is recorded; or when the full
\* log is appended to, after the optimizer step and before the row exists.
TrainStepFails ==
    /\ pc = "train"
    /\ i < train_len
    /\ \E at \in {"batch", "loss", "log"} :
          /\ raised' = at
          /\ IF at = "log"
                THEN /\ train_tag' = n_iter
                     /\ train_emit' = LogTrainImages(n_iter, log_output)
                     /\ opt_steps' = opt_steps + 1
                     /\ updates' = StepParameters(updates, parameters)
                     /\ train_steps' = train_steps + 1
                ELSE UNCHANGED <<train_tag, train_emit, opt_steps, updates,
                                 train_steps>>
    /\ pc' = OnException(pc)
    /\ UNCHANGED <<parameters, config, epoch_size, epoch, i, n_iter,
                   best_photo_loss, log_full, log_summary, checkpoints,
                   valid_photo_loss, poses, pose_writers, val_tag, val_emit,
                   val_inputs, writers_used, histograms>>

\* The loop body of validate raises when the loader produces batch i or a
\* loss is computed: nothing of the batch is recorded.
ValidateBatchFails ==
    /\ pc = "validate"
    /\ i < val_len
    /\ \E at \in {"batch", "loss"} : raised' = at
    /\ pc' = OnException(pc)
    /\ UNCHANGED <<parameters, updates>>
    /\ UNCHANGED <<config, epoch_size, epoch, i, n_iter, best_photo_loss,
                   opt_steps, train_steps, log_full, log_summary, checkpoints,
                   valid_photo_loss, poses, pose_writers, val_tag, val_emit,
                   val_inputs, writers_used, histograms, train_tag, train_emit>>

\* save_checkpoint raises: best_photo_loss has been updated, nothing is saved.
CheckpointSaveFails ==
    /\ pc = "checkpoint"
    /\ best_photo_loss' =
          Min(valid_photo_loss, Baseline(best_photo_loss, valid_photo_loss))
    /\ raised' = "checkpoint"
    /\ pc' = OnException(pc)
    /\ UNCHANGED <<parameters, updates>>
    /\ UNCHANGED <<config, epoch_size, epoch, i, n_iter, opt_steps,
                   train_steps, log_full, log_summary, checkpoints,
                   valid_photo_loss, poses, pose_writers, val_tag, val_emit,
                   val_inputs, writers_used, histograms, train_tag, train_emit>>

\* The append to the summary log raises: no row is written.
SummaryRowFails ==
    /\ pc = "summary"
    /\ raised' = "log"
    /\ pc' = OnException(pc)
    /\ UNCHANGED <<parameters, updates>>
    /\ UNCHANGED <<config, epoch_size, epoch, i, n_iter, best_photo_loss,
                   opt_steps, train_steps, log_full, log_summary, checkpoints,
                   valid_photo_loss, poses, pose_writers, val_tag, val_emit,
                   val_inputs, writers_used, histograms, train_tag, train_emit>>

\* A run in which any of these failures may happen, for every dataset format.
InitFault ==
    /\ epochs \in 1..MaxEpochs
    /\ cli_epoch_size \in 0..MaxEpochSize
    /\ train_len \in 1..MaxTrainLen
    /\ val_len \in 0..MaxValLen
    /\ batch_size = DefaultBatchSize
    /\ sequence_length = DefaultSeqLen
    /\ log_output = FALSE
    /\ output_writers = MainWriters(log_output)
    /\ val_photo = [e \in 1..epochs |-> 0]
    /\ dataset_format \in {"stacked", "sequential", "bogus"}
    /\ disp_params = {1}
    /\ pose_params = {2}
    /\ Boot

\* The optimizer: every pair of parameter sets, shared parameters included.
InitOpt ==
    /\ epochs \in 1..2
    /\ cli_epoch_size \in {0, 3}
    /\ train_len = 2
    /\ val_len \in 0..1
    /\ batch_size = DefaultBatchSize
    /\ sequence_length = DefaultSeqLen
    /\ log_output = FALSE
    /\ output_writers = MainWriters(log_output)
    /\ val_photo = [e \in 1..epochs |-> 0]
    /\ dataset_format = "sequential"
    /\ disp_params \in SUBSET (1..MaxParams) \ {{}}
    /\ pose_params \in SUBSET (1..MaxParams) \ {{}}
    /\ Boot

\* ---- properties ---------------------------------------------------------------------

\* The epoch size in force: the command-line value, or the loader length for 0.
EffectiveEpochSize == IF cli_epoch_size = 0 THEN train_len ELSE cli_epoch_size
StepsPerEpoch == Min(train_len, EffectiveEpochSize)

\* The current call of train has returned.
TrainOver ==
    \/ pc \in {"validate_enter", "validate", "checkpoint", "summary", "error"}
    \/ pc \in {"epoch_loop", "done"} /\ epoch > 0

\* C1: n_iter starts at 0, grows by exactly 1 for each training step executed
\* (so it always equals the number of optimizer steps taken), and after a full
\* run equals the sum over the epochs of min(epochSize, trainingStreamLength).
C1_GlobalStepCountsSteps ==
    pc = "done" =>
        /\ n_iter = opt_steps
        /\ n_iter = epochs * StepsPerEpoch

\* C2: at the checkpoint decision of epoch 0, bestPhotoLoss becomes that epoch's
\* validation photometric loss and the epoch is saved with isBest = false; at
\* the decision of an epoch e > 0, isBest is true iff the epoch's loss is below
\* bestPhotoLoss as it was before, and bestPhotoLoss becomes the minimum of
\* the two.
C2_BestPhotoLossRule ==
    [][pc = "checkpoint" =>
         /\ valid_photo_loss = val_photo[epoch + 1]
         /\ Len(checkpoints') = Len(checkpoints) + 1
         /\ LET saved == checkpoints'[Len(checkpoints')]
            IN IF epoch = 0
                  THEN /\ best_photo_loss' = valid_photo_loss
                       /\ saved.is_best = FALSE
                  ELSE /\ saved.is_best = (valid_photo_loss < best_photo_loss)
                       /\ best_photo_loss' = Min(best_photo_loss, valid_photo_loss)
    ]_vars

\* The scenario of C2 (losses 0.8, 0.6, 0.7, 0.5 in rank order) after its
\* fourth epoch: isBest was false, true, false, true.
C2_Witness ==
    /\ pc = "summary"
    /\ val_photo = <<3, 1, 2, 0>>
    /\ [k \in 1..Len(checkpoints) |-> checkpoints[k].is_best]
          = <<FALSE, TRUE, FALSE, TRUE>>
    /\ best_photo_loss = 0

\* C3: a call of train never executes more than min(trainingStreamLength,
\* epochSize) optimizer steps and has executed exactly that many when it
\* returns, the epoch size being the loader length when 0 was configured
\* (replaced before the first epoch).
C3_StepsPerEpoch ==
    /\ train_steps <= StepsPerEpoch
    /\ TrainOver => train_steps = StepsPerEpoch
    /\ pc # "main" => epoch_size = EffectiveEpochSize

\* A second epoch truncated by the epoch size, and a whole-stream epoch
\* configured with 0.
C3_Witness ==
    /\ pc = "validate_enter"
    /\ epoch = 1
    /\ \/ cli_epoch_size = 2 /\ train_len = 3 /\ train_steps = 2
       \/ cli_epoch_size = 0 /\ train_len = 3 /\ train_steps = 3

\* C4: the full log holds exactly one data row per executed training step, at
\* every point of the run (validation adds none), so after a run its row
\* count is the number of training steps executed.
C4_FullLogRowPerStep ==
    /\ log_full = opt_steps
    /\ pc = "done" => log_full = epochs * StepsPerEpoch

C4_Witness ==
    /\ pc = "done"
    /\ epochs = 2
    /\ cli_epoch_size = 2
    /\ train_len = 3
    /\ val_len = 2
    /\ log_full = 4

\* The phase of the epoch state machine that main is in.
Phase ==
    CASE pc \in {"main", "epoch_loop"} -> "Idle"
      [] pc = "train" -> "Train"
      [] pc \in {"validate_enter", "validate"} -> "Validate"
      [] pc \in {"checkpoint", "summary"} -> "CheckpointLog"
      [] OTHER -> pc

PhaseOrder ==
    {<<"Idle", "Train">>, <<"Train", "Validate">>,
     <<"Validate", "CheckpointLog">>, <<"CheckpointLog", "Idle">>,
     <<"Idle", "done">>, <<"Validate", "error">>}

\* C5: epochs are visited 0, 1, ..., epochCount-1 with none skipped or
\* repeated; within an epoch the phases follow train, validate, checkpoint,
\* summary row; training steps happen only in the train phase of an epoch whose
\* predecessors all have their checkpoint and summary row, validation batches
\* only after that epoch's training, the checkpoint only after all validation
\* batches, the summary row only after the checkpoint.
C5_EpochAndPhaseOrder ==
    [][/\ Phase' # Phase => <<Phase, Phase'>> \in PhaseOrder
       /\ epoch' # epoch =>
             /\ epoch' = epoch + 1
             /\ log_summary' = Append(log_summary, epoch)
       /\ Phase' = "Train" => epoch' < epochs
       /\ Phase' = "done" => epoch' = epochs
       /\ opt_steps' # opt_steps =>
             /\ Phase = "Train"
             /\ Len(checkpoints) = epoch
             /\ Len(log_summary) = epoch
       /\ val_tag' # val_tag /\ val_tag' >= 0 =>
             /\ Phase = "Validate"
             /\ train_steps = StepsPerEpoch
             /\ Len(checkpoints) = epoch
       /\ checkpoints' # checkpoints =>
             /\ Phase = "CheckpointLog"
             /\ val_tag = val_len - 1
             /\ Len(checkpoints) = epoch
             /\ Len(log_summary) = epoch
       /\ log_summary' # log_summary =>
             /\ Phase = "CheckpointLog"
             /\ Len(checkpoints) = epoch + 1
             /\ Len(log_summary) = epoch
    ]_vars

C5_Witness ==
    /\ pc = "done"
    /\ epochs = 3
    /\ log_summary = <<0, 1, 2>>
    /\ opt_steps = 3 * StepsPerEpoch
    /\ val_len = 2

\* C6: while validate runs and after it, the pose buffer has
\* (B-1)*S*(L-1) rows; with writers present exactly the processed batches
\* among 0..B-2 have assigned into it, without writers none has; the last
\* batch B-1 never assigns into it.
C6_PoseBufferLength ==
    pc \in {"validate", "checkpoint", "summary"} =>
        /\ DOMAIN poses =
               0..((val_len - 1) * batch_size * (sequence_length - 1) - 1)
        /\ (val_len - 1) \notin pose_writers
        /\ pose_writers = IF output_writers > 0
                             THEN {b \in 0..val_tag : b <= val_len - 2}
                             ELSE {}

\* The scenario of C6: B=5, S=2, L=3 gives 16 rows, batches 0-3 assign.
C6_Witness ==
    /\ pc = "checkpoint"
    /\ val_len = 5
    /\ batch_size = 2
    /\ sequence_length = 3
    /\ Cardinality(DOMAIN poses) = 16
    /\ pose_writers = 0..3
    /\ val_tag = 4

\* C7: after validation batch i, writer i div 100 has received images iff
\* i mod 100 = 0 and i div 100 < channelCount, and no other writer has; no
\* writer index >= channelCount is ever subscripted; with no writer nothing
\* is emitted at all.
C7_ValidationImageGate ==
    /\ val_tag >= 0 =>
          val_emit = IF /\ val_tag % 100 = 0
                        /\ val_tag \div 100 < output_writers
                       THEN {val_tag \div 100} ELSE {}
    /\ val_inputs \subseteq val_emit
    /\ writers_used \subseteq 0..(output_writers - 1)
    /\ output_writers = 0 => val_emit = {} /\ writers_used = {} /\ histograms = {}

\* Batch 300 with three writers: writer 3 does not exist and gets nothing,
\* after writers 0, 1 and 2 got their images at batches 0, 100 and 200.
C7_Witness ==
    /\ val_tag = 300
    /\ output_writers = 3
    /\ val_emit = {}
    /\ writers_used = {0, 1, 2}

\* C8: the training step tagged s has emitted images iff diagnostics are
\* enabled and s mod 200 = 0 (200 being the stride of the code).
C8_TrainImageGate ==
    train_tag >= 0 => (train_emit <=> (log_output /\ train_tag % 200 = 0))

C8_Witness ==
    /\ train_tag = 400
    /\ train_emit
    /\ log_output
    /\ epoch = 0

\* C9: every epoch produces exactly one checkpoint save and one summary row,
\* neither before its validation has returned: while an epoch trains or
\* validates there are exactly as many of each as epochs completed, and after
\* an error-free run there are epochCount of each, in epoch order.
C9_OneCheckpointAndRowPerEpoch ==
    /\ Len(log_summary) = epoch
    /\ Len(checkpoints) = IF pc = "summary" THEN epoch + 1 ELSE epoch
    /\ \A k \in 1..(Len(checkpoints) - 1) :
          checkpoints[k].epoch < checkpoints[k + 1].epoch
    /\ \A k \in 1..(Len(log_summary) - 1) : log_summary[k] < log_summary[k + 1]
    /\ pc = "done" => Len(checkpoints) = epochs /\ Len(log_summary) = epochs

C9_Witness ==
    /\ pc = "done"
    /\ epochs = 3
    /\ Len(checkpoints) = 3
    /\ Len(log_summary) = 3
    /\ val_photo = <<1, 1, 1>>

\* C10: no step of validate changes n_iter, best_photo_loss, the parameters
\* (no optimizer step) or the full log, so they are at its end what they were
\* at its start.
C10_ValidateFrame ==
    [][(pc \in {"validate_enter", "validate"}) =>
         /\ n_iter' = n_iter
         /\ best_photo_loss' = best_photo_loss
         /\ opt_steps' = opt_steps
         /\ log_full' = log_full
    ]_vars

C10_Witness ==
    /\ pc = "checkpoint"
    /\ val_len = 5
    /\ val_tag = 4
    /\ epoch = 1
    /\ n_iter = 2
    /\ opt_steps = 2
    /\ log_full = 2

\* C11: a failure ends the run where it happens: once an exception has been
\* raised main is left and no training step, validation batch, checkpoint,
\* summary row or epoch follows; the failing step itself appends no row and
\* saves nothing, and no step ever removes a row from either log.
C11_FailureEndsRun ==
    /\ [](raised # "none" => pc = "error")
    /\ [][/\ raised # "none" =>
               /\ pc' = "error"
               /\ opt_steps' = opt_steps
               /\ val_tag' = val_tag
               /\ checkpoints' = checkpoints
               /\ log_summary' = log_summary
               /\ log_full' = log_full
               /\ epoch' = epoch
          /\ raised' # raised =>
               /\ raised = "none"
               /\ pc' = "error"
               /\ checkpoints' = checkpoints
               /\ log_summary' = log_summary
               /\ log_full' = log_full
          /\ log_full' >= log_full
          /\ Len(log_summary') >= Len(log_summary)
          /\ SubSeq(log_summary', 1, Len(log_summary)) = log_summary
       ]_vars

\* The append to the full log fails at the first step of the second epoch:
\* the rows of the three steps before it and the first summary row remain.
C11_Witness ==
    /\ pc = "error"
    /\ raised = "log"
    /\ epoch = 1
    /\ log_summary = <<0>>
    /\ opt_steps = 4
    /\ log_full = 3

\* C12: a run whose validation loader is not empty reaches the end of main,
\* having trained and validated exactly epochCount times, and every call of
\* train returns, be it through the break or because the loader is exhausted.
C12_RunTerminates ==
    /\ (val_len > 0) ~> (/\ pc = "done"
                         /\ epoch = epochs
                         /\ Len(checkpoints) = epochs
                         /\ Len(log_summary) = epochs
                         /\ opt_steps = epochs * StepsPerEpoch)
    /\ (pc = "train") ~> (pc = "validate_enter")

\* Three epochs that each end by exhausting a loader shorter than the epoch size.
C12_Witness ==
    /\ pc = "done"
    /\ epochs = 3
    /\ cli_epoch_size = 3
    /\ train_len = 2
    /\ val_len = 2
    /\ opt_steps = 6

\* C13: once built, the optimizer lists exactly the parameters of the two
\* networks, each of them once, also one that both networks share; so every
\* parameter has been updated exactly once by each optimizer step.
C13_OptimizerParametersAreUnion ==
    /\ pc # "main" =>
          /\ DOMAIN parameters = disp_params \cup pose_params
          /\ \A x \in DOMAIN parameters : parameters[x] = 1
    /\ \A x \in disp_params \cup pose_params : updates[x] = opt_steps

C13_Witness ==
    /\ disp_params = {1, 2}
    /\ pose_params = {2, 3}
    /\ opt_steps = 2
    /\ updates = [x \in 1..3 |-> 2]

\* C14: with a dataset format that is neither 'stacked' nor 'sequential' the
\* run never leaves the start of main except into the error state, and no
\* training step, validation batch, log row or checkpoint is ever produced.
C14_InvalidFormatIsFatal ==
    dataset_format \notin {"stacked", "sequential"} =>
        /\ pc \in {"main", "error"}
        /\ pc = "error" => raised = "name"
        /\ opt_steps = 0
        /\ train_tag = -1
        /\ val_tag = -1
        /\ log_full = 0
        /\ log_summary = <<>>
        /\ checkpoints = <<>>

C14_Witness ==
    /\ dataset_format = "bogus"
    /\ pc = "error"
    /\ raised = "name"

\* Calls of train that have returned so far.
TrainCallsReturned ==
    IF pc \in {"validate_enter", "validate", "checkpoint", "summary", "error"}
       THEN epoch + 1 ELSE epoch

\* Every epoch of the run leaves train through the epoch-size break.
EndsByBreak == EffectiveEpochSize <= train_len

\* C15: a training step is tagged with n_iter and then increments it unless
\* the break fires at that batch (i >= epoch_size - 1); so n_iter lags the
\* executed steps by one per epoch ended through the break and by nothing
\* when the loader is exhausted first, and the first step after an epoch that
\* ended through the break carries the tag of that epoch's last step.
C15_NIterSkipsBreakStep ==
    /\ [](n_iter = opt_steps - (IF EndsByBreak THEN TrainCallsReturned ELSE 0))
    /\ [][opt_steps' # opt_steps =>
            /\ train_tag' = n_iter
            /\ n_iter' = IF i >= epoch_size - 1 THEN n_iter ELSE n_iter + 1
            /\ (train_steps = 0 /\ epoch > 0 /\ EndsByBreak) =>
                   train_tag' = train_tag
       ]_vars

\* Epoch size 3 on 3 batches: the first step of the second epoch is the
\* fourth step of the run and is tagged 2, like the third.
C15_Witness ==
    /\ pc = "train"
    /\ epoch = 1
    /\ cli_epoch_size = 3
    /\ train_len = 3
    /\ train_steps = 1
    /\ train_tag = 2
    /\ opt_steps = 4
    /\ n_iter = 3

\* C16: with writers present, every batch that assigns poses targets rows
\* [b*step, (b+1)*step), step = batchSize*(sequenceLength-1), all inside the
\* buffer; a row has been written once if its batch has assigned and never
\* otherwise (the slices do not overlap); after the last batch every row has
\* been written exactly once.
C16_PoseSlicesTileBuffer ==
    (pc \in {"validate", "checkpoint", "summary"} /\ output_writers > 0) =>
        LET step == batch_size * (sequence_length - 1)
            len == Cardinality(DOMAIN poses)
        IN /\ \A b \in pose_writers : b * step >= 0 /\ (b + 1) * step <= len
           /\ \A k \in DOMAIN poses :
                 poses[k] = IF (k \div step) \in pose_writers THEN 1 ELSE 0
           /\ pc \in {"checkpoint", "summary"} =>
                 \A k \in DOMAIN poses : poses[k] = 1

C16_Witness ==
    /\ pc = "checkpoint"
    /\ val_len = 5
    /\ batch_size = 2
    /\ sequence_length = 3
    /\ output_writers = 1
    /\ poses = [k \in 0..15 |-> 1]

\* The least validation photometric loss of the first n epochs.
MinSeen(n) ==
    CHOOSE m \in {val_photo[k] : k \in 1..n} : \A k \in 1..n : m <= val_photo[k]

\* C17: once epoch 0 has set it, bestPhotoLoss is never the unset value again
\* (it is not negative), never increases, and is the least validation
\* photometric loss seen so far.
C17_BestIsMinimumSeen ==
    /\ [](Len(checkpoints) >= 1 =>
            /\ best_photo_loss # UnsetBest
            /\ best_photo_loss >= 0
            /\ best_photo_loss = MinSeen(Len(checkpoints)))
    /\ [][best_photo_loss # UnsetBest =>
            /\ best_photo_loss' # UnsetBest
            /\ best_photo_loss' <= best_photo_loss
       ]_vars

\* The minimum 0 of the third epoch survives a fourth epoch with loss 2.
C17_Witness ==
    /\ pc = "summary"
    /\ epoch = 3
    /\ val_photo = <<1, 3, 0, 2>>
    /\ best_photo_loss = 0

\* C18: no histogram is emitted while validate still processes batches; when
\* it has returned, the six pose histograms have been emitted to writer 0 and
\* to no other writer if there is a writer, and none otherwise.
C18_HistogramsAfterLastBatch ==
    /\ pc = "validate" => histograms = {}
    /\ pc \in {"checkpoint", "summary"} =>
          /\ histograms = IF output_writers > 0
                            THEN {0} \X {"tx", "ty", "tz", "rx", "ry", "rz"}
                            ELSE {}
          /\ Cardinality(histograms) = IF output_writers > 0 THEN 6 ELSE 0

C18_Witness ==
    /\ pc = "checkpoint"
    /\ epoch = 1
    /\ val_len = 5
    /\ val_tag = 4
    /\ output_writers = 3
    /\ Cardinality(histograms) = 6

Next ==
    \/ MainSetup
    \/ EpochBegin
    \/ MainFinish
    \/ TrainStep
    \/ TrainExhausted
    \/ ValidateEnter
    \/ ValidateEnterFails
    \/ ValidateBatch
    \/ ValidateReturn
    \/ CheckpointSave
    \/ SummaryRow

Spec == Init /\ [][Next]_vars
SpecBest == InitBest /\ [][Next]_vars
SpecPose == InitPose /\ [][Next]_vars
SpecVis == InitVis /\ [][Next]_vars
SpecOpt == InitOpt /\ [][Next]_vars

\* The run is a single thread that always takes its next step.
SpecLive == Init /\ [][Next]_vars /\ WF_vars(Next)

NextFault ==
    \/ Next
    \/ MainDatasetFails
    \/ TrainStepFails
    \/ ValidateBatchFails
    \/ CheckpointSaveFails
    \/ SummaryRowFails

SpecFault == InitFault /\ [][NextFault]_vars

====
